---------------------------- MODULE Spec2Model ----------------------------
(* A model of lmao's client layer: ChatHistory / AnthropicChatHistory      *)
(* (the bounded message buffer with format validation) and                 *)
(* BaseClient._post_request (header construction, the HTTP exchange and    *)
(* response normalisation).                                                *)
(*                                                                         *)
(* Python values are modelled as strings; a Python object handed to the    *)
(* history is a record [type, items]: its Python type and, for a dict,     *)
(* its items as a function from keys to values.                            *)
EXTENDS Naturals, Sequences, FiniteSets, TLC

VARIABLES
    max_length,   \* ChatHistory.max_length
    messages,     \* contents of ChatHistory._messages, oldest first
    container,    \* Python type of ChatHistory._messages: "deque" or "list"
    call,         \* the last ChatHistory call: [op, arg, exc, ret]
    appended,     \* the messages appended since the history was last empty
    pc,           \* where the client is: construction, then _post_request
    client,       \* the constructed BaseClient: [api_key, api_header,
                  \*   base_url, max_retries]
    session,      \* the requests.Session of the current _post_request call
    extra_headers,\* the extra_headers argument of the current call
    headers,      \* the local variable headers of the current call
    posted,       \* the POST attempts sent in the current call, in order
    received,     \* the status codes received in the current call, in order
    response,     \* the response the HTTP library handed back
    result,       \* how the constructor or _post_request ended:
                  \*   [exc, status_code, response_dict]
    completion,   \* the current or last AnthropicClient.complete call:
                  \*   [state, kwargs, exc, response]
    ctor_args,    \* what BaseClient.__init__ was called with: [api_key, env,
                  \*   base_url, api_header_format]
    ids,          \* the identity of each buffered object: ids[i] is the
                  \*   id() of messages[i]
    next_id,      \* the identity the next new object gets
    returned      \* the list the messages getter returned last, as the
                  \*   caller holds it: [taken, list], each element of list
                  \*   an object [id, msg]

hvars == <<max_length, messages, container, call>>

cvars == <<pc, client, session, extra_headers, headers, posted, received,
           response, result, completion, ctor_args>>

vars == <<max_length, messages, container, call, appended, pc, client,
          session, extra_headers, headers, posted, received, response,
          result, completion, ctor_args, ids, next_id, returned>>

svars == <<ids, next_id, returned>>

---------------------------------------------------------------------------
(* Bounds *)

\* largest max_length a history is constructed with
MaxLength == 2
\* longest sequence assigned through the messages setter
MaxSet == 2
\* most appends in a behaviour of SpecFifo
MaxAppends == 4
\* most objects created in a behaviour of SpecSnapshot
MaxObjects == 2

---------------------------------------------------------------------------
(* Python values *)

None == "<None>"
NoExc == "<no exception>"
ValueError == "ValueError"

EmptyDict == [k \in {} |-> None]
Dict(items) == [type |-> "dict", items |-> items]
NonDict(type) == [type |-> type, items |-> EmptyDict]

human_role == "human"
assistant_role == "assistant"

\* {"role": role, "content": content}
Message(role, content) == Dict([role |-> role, content |-> content])

---------------------------------------------------------------------------
(* AnthropicChatHistory.check_message_format *)

check_message_format_no_content(message) ==
    IF message.type # "dict" THEN [exc |-> ValueError, ret |-> message]
    ELSE IF "role" \notin DOMAIN message.items
         THEN [exc |-> ValueError, ret |-> message]
    ELSE [exc |-> NoExc, ret |-> message]

check_message_format_strips(message) ==
    IF message.type # "dict" THEN [exc |-> ValueError, ret |-> message]
    ELSE IF "role" \notin DOMAIN message.items
         THEN [exc |-> ValueError, ret |-> message]
    ELSE IF "content" \notin DOMAIN message.items
         THEN [exc |-> ValueError, ret |-> message]
    ELSE [exc |-> NoExc,
          ret |-> Dict([k \in {"role", "content"} |-> message.items[k]])]

\* [exc, ret]: the exception raised (NoExc if none) and the value returned
check_message_format(message) ==
    IF message.type # "dict" THEN [exc |-> ValueError, ret |-> message]
    ELSE IF "role" \notin DOMAIN message.items
         THEN [exc |-> ValueError, ret |-> message]
    ELSE IF "content" \notin DOMAIN message.items
         THEN [exc |-> ValueError, ret |-> message]
    ELSE [exc |-> NoExc, ret |-> message]

---------------------------------------------------------------------------
(* The containers behind ChatHistory._messages *)

DequeAppendDropNewest(q, m, maxlen) ==
    IF Len(q) >= maxlen THEN q ELSE Append(q, m)

\* collections.deque(maxlen=maxlen).append(m)
DequeAppend(q, m, maxlen) ==
    IF maxlen = 0 THEN q
    ELSE IF Len(q) = maxlen THEN Tail(q) \o <<m>>
    ELSE Append(q, m)

\* self._messages.append(m): a deque built in __init__, a list after the setter
ContainerAppend(kind, q, m, maxlen) ==
    IF kind = "deque" THEN DequeAppend(q, m, maxlen) ELSE Append(q, m)

RECURSIVE CheckEach(_)
\* [check_message_format(m) for m in msgs]: [exc, out]; the comprehension
\* stops at the first element that raises
CheckEach(msgs) ==
    IF msgs = <<>> THEN [exc |-> NoExc, out |-> <<>>]
    ELSE LET r == check_message_format(Head(msgs)) IN
         IF r.exc # NoExc THEN [exc |-> r.exc, out |-> <<>>]
         ELSE LET rest == CheckEach(Tail(msgs)) IN
              IF rest.exc # NoExc THEN [exc |-> rest.exc, out |-> <<>>]
              ELSE [exc |-> NoExc, out |-> <<r.ret>> \o rest.out]

RECURSIVE ValidPrefix(_)
ValidPrefix(msgs) ==
    IF msgs = <<>> THEN <<>>
    ELSE IF check_message_format(Head(msgs)).exc # NoExc THEN <<>>
    ELSE <<Head(msgs)>> \o ValidPrefix(Tail(msgs))

SetterStoreElementwise(old, kind, msgs) ==
    LET r == CheckEach(msgs) IN
    IF r.exc # NoExc
    THEN [exc |-> r.exc, messages |-> ValidPrefix(msgs), container |-> "list"]
    ELSE [exc |-> NoExc, messages |-> r.out, container |-> "list"]

\* self._messages = [self.check_message_format(m) for m in messages]:
\* the assignment happens only after the whole comprehension was evaluated
SetterStore(old, kind, msgs) ==
    LET r == CheckEach(msgs) IN
    IF r.exc # NoExc
    THEN [exc |-> r.exc, messages |-> old, container |-> kind]
    ELSE [exc |-> NoExc, messages |-> r.out, container |-> "list"]

---------------------------------------------------------------------------
(* Inputs *)

Contents == {"hi", None}
AppendRoles == {assistant_role, None}

\* objects a caller assigns through the messages setter
SetterObjects ==
    { Message(human_role, "hi"),
      Dict([role |-> human_role]),
      NonDict("str") }

SeqsUpTo(S, n) == UNION { [1..k -> S] : k \in 0..n }

SetterInputs == SeqsUpTo(SetterObjects, MaxSet)

\* a list grows without limit once the setter replaced the deque: appends to
\* it are explored up to this length
MaxList == MaxLength + 1

---------------------------------------------------------------------------
(* ChatHistory *)

\* arg: the objects passed, as a sequence; ret: the value returned
CallRecord(op, arg, exc, ret) ==
    [op |-> op, arg |-> arg, exc |-> exc, ret |-> ret]

\* ChatHistory.__init__(max_length)
HistoryInit ==
    /\ max_length \in 0..MaxLength
    /\ messages = <<>>
    /\ container = "deque"
    /\ call = CallRecord("__init__", <<>>, NoExc, None)

\* the body of append, shared by the two convenience wrappers
AppendAs(op, role, content) ==
    LET r == check_message_format(Message(role, content)) IN
    /\ container = "list" => Len(messages) < MaxList
    /\ call' = CallRecord(op, <<Message(role, content)>>, r.exc, None)
    /\ IF r.exc # NoExc
       THEN UNCHANGED <<messages>>
       ELSE messages' = ContainerAppend(container, messages, r.ret, max_length)
    /\ UNCHANGED <<max_length, container>>
    /\ UNCHANGED cvars

append(role, content) == AppendAs("append", role, content)

add_human_message(message) == AppendAs("add_human_message", human_role, message)

add_assistant_message(message) ==
    AppendAs("add_assistant_message", assistant_role, message)

clear ==
    /\ messages' = <<>>
    /\ call' = CallRecord("clear", <<>>, NoExc, None)
    /\ UNCHANGED <<max_length, container>>
    /\ UNCHANGED cvars

messages_setter(msgs) ==
    LET r == SetterStore(messages, container, msgs) IN
    /\ messages' = r.messages
    /\ container' = r.container
    /\ call' = CallRecord("messages.setter", msgs, r.exc, None)
    /\ UNCHANGED <<max_length>>
    /\ UNCHANGED cvars

\* no list was handed out yet; the identities of new objects start at 1
NoReturned == [taken |-> FALSE, list |-> <<>>]

SnapshotInit ==
    /\ ids = <<>>
    /\ next_id = 1
    /\ returned = NoReturned

\* the messages property: list(self._messages), a new list of the same
\* objects
messages_getter ==
    /\ returned' = [taken |-> TRUE,
                    list |-> [i \in 1..Len(messages) |->
                                 [id |-> ids[i], msg |-> messages[i]]]]
    /\ call' = CallRecord("messages", <<>>, NoExc, messages)
    /\ UNCHANGED <<max_length, messages, container, ids, next_id>>
    /\ UNCHANGED <<cvars, appended>>

---------------------------------------------------------------------------
(* The caller of ChatHistory.messages, working on the list it was given *)

\* an object of the caller's own, in no buffer
CallerMessage == [id |-> 0, msg |-> Message(human_role, "mine")]

\* m["content"] = "changed" on the object with this identity
Altered(m) == Dict([m.items EXCEPT !["content"] = "changed"])

\* returned.append(message)
caller_append ==
    /\ returned.taken
    /\ Len(returned.list) <= MaxLength
    /\ returned' = [returned EXCEPT !.list = Append(@, CallerMessage)]
    /\ call' = CallRecord("list.append", <<CallerMessage.msg>>, NoExc, None)
    /\ UNCHANGED <<max_length, messages, container, ids, next_id>>
    /\ UNCHANGED <<cvars, appended>>

\* returned.pop(0)
caller_remove ==
    /\ returned.taken
    /\ returned.list # <<>>
    /\ returned' = [returned EXCEPT !.list = Tail(@)]
    /\ call' = CallRecord("list.pop", <<>>, NoExc, returned.list[1].msg)
    /\ UNCHANGED <<max_length, messages, container, ids, next_id>>
    /\ UNCHANGED <<cvars, appended>>

\* returned[i]["content"] = "changed": the dict is changed wherever it is
\* held, in the caller's list and in the buffer
caller_alter(i) ==
    LET target == returned.list[i].id IN
    /\ returned.taken
    /\ i \in 1..Len(returned.list)
    /\ returned' = [returned EXCEPT !.list =
                        [j \in 1..Len(@) |->
                            IF j = i \/ (target # 0 /\ @[j].id = target)
                            THEN [@[j] EXCEPT !.msg = Altered(@)]
                            ELSE @[j]]]
    /\ messages' = [j \in 1..Len(messages) |->
                        IF target # 0 /\ ids[j] = target
                        THEN Altered(messages[j]) ELSE messages[j]]
    /\ call' = CallRecord("dict.__setitem__", <<returned.list[i].msg>>,
                          NoExc, None)
    /\ UNCHANGED <<max_length, container, ids, next_id>>
    /\ UNCHANGED <<cvars, appended>>

---------------------------------------------------------------------------
(* AnthropicChatHistory: serialization *)

\* str.title() on the role strings of the model
Title(role) ==
    CASE role = human_role -> "Human"
      [] role = assistant_role -> "Assistant"
      [] OTHER -> role

\* the text an f-string puts for a value: str(value)
Str(value) == IF value = None THEN "None" ELSE value

\* f"{message['role'].title()}: {message['content']}": None has no title()
Turn(message) ==
    IF message.items["role"] = None
    THEN [exc |-> "AttributeError", ret |-> None]
    ELSE [exc |-> NoExc,
          ret |-> Title(message.items["role"]) \o ": "
                    \o Str(message.items["content"])]

\* "\n\n".join([...]) over the buffer, left to right; the list comprehension
\* raises at the first message whose turn raises
RECURSIVE Join(_)
Join(msgs) ==
    IF msgs = <<>> THEN [exc |-> NoExc, ret |-> ""]
    ELSE LET head == Turn(msgs[1])
             rest == Join(Tail(msgs))
         IN  IF head.exc # NoExc THEN head
             ELSE IF rest.exc # NoExc THEN rest
             ELSE IF Len(msgs) = 1 THEN head
             ELSE [exc |-> NoExc, ret |-> head.ret \o "\n\n" \o rest.ret]

\* AnthropicChatHistory.to_prompt(end_with_assistant_prompt)
to_prompt(msgs, end_with_assistant_prompt) ==
    LET chat == Join(msgs) IN
    IF chat.exc = NoExc /\ end_with_assistant_prompt
    THEN [exc |-> NoExc, ret |-> chat.ret \o "\n\nAssistant:"]
    ELSE chat

\* AnthropicChatHistory.to_request_format()
to_request_format ==
    LET r == to_prompt(messages, TRUE) IN
    /\ call' = CallRecord("to_request_format", <<>>, r.exc, r.ret)
    /\ UNCHANGED <<max_length, messages, container>>
    /\ UNCHANGED cvars

---------------------------------------------------------------------------
(* BaseClient: construction *)

SUCCESS_STATUS_CODE == 200

Schemes == {"x-api-key", "basic authentication", "bearer authentication"}

\* API_HEADER_FORMAT_DICT[scheme]: the header key, and the header value for
\* an API key
HeaderKey(scheme) ==
    IF scheme = "x-api-key" THEN "X-API-Key" ELSE "Authorization"

HeaderValue(scheme, api_key) ==
    IF scheme = "x-api-key" THEN api_key
    ELSE IF scheme = "basic authentication" THEN "Basic " \o api_key
    ELSE "Bearer " \o api_key

RETRY_STATUS_CODES == {429, 500, 502, 503, 504}

\* the default of BaseClient.__init__'s max_retries
DefaultMaxRetries == 5

NoClient == [api_key |-> None, scheme |-> None, base_url |-> None,
             max_retries |-> 0]
NoResult == [exc |-> NoExc, status_code |-> 0, response_dict |-> EmptyDict]
NoResponse == [status_code |-> 0, decodes |-> FALSE, json |-> EmptyDict]
PyNone == NonDict("NoneType")
NoArgs == [api_key |-> None, env |-> None, base_url |-> None,
           api_header_format |-> None]
NoSession == [state |-> "none", retries |-> None]

\* ClientResponse(text, raw_response, status_code)
ClientResponse(text, raw_response, status_code) ==
    [text |-> text, raw_response |-> raw_response, status_code |-> status_code]

NoClientResponse == ClientResponse(None, EmptyDict, 0)
NoCompletion == [state |-> "none", kwargs |-> EmptyDict, exc |-> NoExc,
                 response |-> NoClientResponse]

ClientInit ==
    /\ pc = "new"
    /\ client = NoClient
    /\ session = NoSession
    /\ extra_headers = PyNone
    /\ headers = EmptyDict
    /\ posted = <<>>
    /\ received = <<>>
    /\ response = NoResponse
    /\ result = NoResult
    /\ completion = NoCompletion
    /\ ctor_args = NoArgs

ResolveKeyEnvFirst(api_key, env) ==
    IF env # None THEN env ELSE IF api_key # "" THEN api_key ELSE None

\* api_key or os.environ.get(self.api_env_name): None and "" are falsy
ResolveKey(api_key, env) ==
    IF api_key # None /\ api_key # "" THEN api_key ELSE env

\* BaseClient.__init__ of a subclass that defines base_url and
\* api_header_format as given, with the environment variable set to env
\* (None: unset)
Construct(api_key, max_retries, env, base_url, api_header_format) ==
    LET key == ResolveKey(api_key, env) IN
    /\ pc = "new"
    /\ ctor_args' = [api_key |-> api_key, env |-> env, base_url |-> base_url,
                     api_header_format |-> api_header_format]
    /\ IF key = None \/ base_url = "none" \/ api_header_format \notin Schemes
       THEN /\ pc' = "ctor_raised"
            /\ result' = [NoResult EXCEPT !.exc = ValueError]
            /\ UNCHANGED client
       ELSE /\ pc' = "idle"
            /\ client' = [api_key |-> key, scheme |-> api_header_format,
                          base_url |-> base_url, max_retries |-> max_retries]
            /\ UNCHANGED result
    /\ UNCHANGED <<session, extra_headers, headers, posted, received,
                   response>>
    /\ UNCHANGED <<hvars, svars, appended, completion>>

---------------------------------------------------------------------------
(* BaseClient._post_request *)

\* urllib3's Retry.DEFAULT_ALLOWED_METHODS
DefaultAllowedMethods == {"HEAD", "GET", "PUT", "DELETE", "OPTIONS", "TRACE"}

\* Retry(total, status_forcelist=...)
Retry(total, status_forcelist) ==
    [total |-> total, status_forcelist |-> status_forcelist,
     allowed_methods |-> DefaultAllowedMethods]

\* the retry policy of the adapters of the session that requests.post
\* creates for itself: HTTPAdapter() with max_retries = Retry(0, read=False)
RequestsPostRetries == Retry(0, {})

IsRetryAnyError(retries, method, status_code, sent) ==
    /\ status_code # SUCCESS_STATUS_CODE
    /\ sent <= retries.total + 1

\* Retry.is_retry(method, status_code) with retries left
IsRetry(retries, method, status_code, sent) ==
    /\ method \in retries.allowed_methods
    /\ status_code \in retries.status_forcelist
    /\ sent <= retries.total

\* with requests.Session() as session: ... session.mount(...)
EnterSession(extra) ==
    /\ pc \in {"idle", "returned", "raised"}
    /\ completion.state # "posting"
    /\ pc' = "in_session"
    /\ session' = [state |-> "open",
                   retries |-> Retry(client.max_retries, RETRY_STATUS_CODES)]
    /\ extra_headers' = extra
    /\ headers' = EmptyDict
    /\ posted' = <<>>
    /\ received' = <<>>
    /\ response' = NoResponse
    /\ result' = NoResult
    /\ UNCHANGED client
    /\ UNCHANGED <<hvars, svars, appended, ctor_args>>

\* _post_request called directly (by a client other than AnthropicClient)
session_enter(extra) ==
    /\ EnterSession(extra)
    /\ completion' = NoCompletion

Values(d) == { d[k] : k \in DOMAIN d }

\* headers.update(extra_headers or {})
Update(d, extra) == IF extra.type = "dict" THEN extra.items @@ d ELSE d

BuildHeadersNoFallback(api_key, scheme, extra) ==
    Update(("accept" :> "application/json")
           @@ ("content-type" :> "application/json")
           @@ (HeaderKey(scheme) :> HeaderValue(scheme, api_key)), extra)

\* the dict headers as it is when the with block ends
BuildHeaders(api_key, scheme, extra) ==
    LET base == ("accept" :> "application/json")
                @@ ("content-type" :> "application/json")
                @@ (HeaderKey(scheme) :> HeaderValue(scheme, api_key))
        merged == Update(base, extra)
    IN  IF api_key \notin Values(merged)
        THEN ("Authorization" :> ("Bearer " \o api_key)) @@ merged
        ELSE merged

build_headers ==
    /\ pc = "in_session"
    /\ pc' = "headers_built"
    /\ headers' = BuildHeaders(client.api_key, client.scheme, extra_headers)
    /\ UNCHANGED <<client, session, extra_headers, posted, received,
                   response, result>>
    /\ UNCHANGED <<hvars, svars, appended, ctor_args, completion>>

\* the end of the with block: Session.__exit__ closes the session
session_exit ==
    /\ pc = "headers_built"
    /\ pc' = "session_closed"
    /\ session' = [session EXCEPT !.state = "closed"]
    /\ UNCHANGED <<client, extra_headers, headers, posted, received,
                   response, result>>
    /\ UNCHANGED <<hvars, svars, appended, ctor_args, completion>>

\* one POST as it goes out: through which sender, under which retry policy,
\* and the state of the call's session at that moment
PostAttempt(api_path) ==
    [url |-> client.base_url \o "/" \o api_path,
     headers |-> headers,
     via |-> "requests.post",
     retries |-> RequestsPostRetries,
     session |-> session.state]

\* requests.post(url=..., json=request, headers=headers): the first attempt
send_post(api_path) ==
    /\ pc = "session_closed"
    /\ pc' = "sent"
    /\ posted' = <<PostAttempt(api_path)>>
    /\ UNCHANGED <<client, session, extra_headers, headers, received,
                   response, result>>
    /\ UNCHANGED <<hvars, svars, appended, ctor_args, completion>>

Statuses == {SUCCESS_STATUS_CODE, 404, 429, 503}

\* what the server may answer: a body that decodes as JSON, or one that
\* does not
Bodies ==
    { [decodes |-> TRUE, json |-> [completion |-> "Hello!"]],
      [decodes |-> TRUE, json |-> [error |-> "overloaded"]],
      [decodes |-> FALSE, json |-> EmptyDict] }

\* the server answers the attempt in flight; the HTTP library sends the
\* request again if its retry policy says so, else hands the response back
server_responds(status_code, body) ==
    /\ pc = "sent"
    /\ received' = Append(received, status_code)
    /\ IF IsRetry(posted[1].retries, "POST", status_code, Len(posted))
       THEN /\ posted' = Append(posted, posted[Len(posted)])
            /\ UNCHANGED <<pc, response>>
       ELSE /\ pc' = "received"
            /\ response' = [status_code |-> status_code,
                            decodes |-> body.decodes, json |-> body.json]
            /\ UNCHANGED posted
    /\ UNCHANGED <<client, session, extra_headers, headers, result>>
    /\ UNCHANGED <<hvars, svars, appended, ctor_args, completion>>

\* the exchange fails below HTTP (connection error, timeout): requests.post
\* raises and _post_request does not catch it
network_failure_as_status ==
    /\ pc = "sent"
    /\ pc' = "returned"
    /\ result' = [NoResult EXCEPT !.status_code = 500]
    /\ UNCHANGED <<client, session, extra_headers, headers, posted,
                   received, response>>
    /\ UNCHANGED <<hvars, svars, appended, ctor_args, completion>>

\* the exception leaves _post_request and, when complete made the call,
\* complete as well: neither has a handler
network_failure ==
    /\ pc = "sent"
    /\ pc' = "raised"
    /\ result' = [NoResult EXCEPT !.exc = "ConnectionError"]
    /\ completion' = IF completion.state = "posting"
                     THEN [completion EXCEPT !.state = "raised",
                                             !.exc = "ConnectionError"]
                     ELSE completion
    /\ UNCHANGED <<client, session, extra_headers, headers, posted,
                   received, response>>
    /\ UNCHANGED <<hvars, svars, appended, ctor_args>>

NormalizeAlways500(resp) ==
    IF resp.decodes
    THEN [exc |-> NoExc, status_code |-> resp.status_code,
          response_dict |-> resp.json]
    ELSE [exc |-> NoExc, status_code |-> 500, response_dict |-> EmptyDict]

\* status_code = response.status_code; try: response.json() except
\* JSONDecodeError: {} and 500 unless the status is the success code
Normalize(resp) ==
    IF resp.decodes
    THEN [exc |-> NoExc, status_code |-> resp.status_code,
          response_dict |-> resp.json]
    ELSE [exc |-> NoExc,
          status_code |-> IF resp.status_code # SUCCESS_STATUS_CODE
                          THEN 500 ELSE resp.status_code,
          response_dict |-> EmptyDict]

post_return ==
    /\ pc = "received"
    /\ pc' = "returned"
    /\ result' = Normalize(response)
    /\ UNCHANGED <<client, session, extra_headers, headers, posted,
                   received, response>>
    /\ UNCHANGED <<hvars, svars, appended, ctor_args, completion>>

---------------------------------------------------------------------------
(* AnthropicClient.complete *)

\* the fields AnthropicCompleteSchema knows besides prompt
SchemaFields == {"max_tokens_to_sample", "temperature"}

\* AnthropicCompleteSchema(prompt=prompt, **kwargs): whether the schema
\* accepts the options; it raises a validation error if not
SchemaAccepts(kwargs) == DOMAIN kwargs \subseteq SchemaFields

CompleteArgumentsIgnoreValidation(kwargs) == [exc |-> NoExc]

\* the arguments of the _post_request call are evaluated before the call:
\* an exception of the schema leaves complete at that point
CompleteArguments(kwargs) ==
    IF SchemaAccepts(kwargs) THEN [exc |-> NoExc]
    ELSE [exc |-> "ValidationError"]

complete(prompt, kwargs) ==
    LET args == CompleteArguments(kwargs) IN
    /\ pc \in {"idle", "returned", "raised"}
    /\ completion.state # "posting"
    /\ IF args.exc # NoExc
       THEN /\ completion' = [state |-> "raised", kwargs |-> kwargs,
                              exc |-> args.exc, response |-> NoClientResponse]
            /\ UNCHANGED <<pc, client, session, extra_headers, headers,
                           posted, received, response, result>>
            /\ UNCHANGED <<hvars, svars, appended, ctor_args>>
       ELSE /\ completion' = [state |-> "posting", kwargs |-> kwargs,
                              exc |-> NoExc, response |-> NoClientResponse]
            /\ EnterSession(PyNone)

ToClientResponseTextWheneverPresent(status_code, response_dict) ==
    [exc |-> NoExc,
     response |-> ClientResponse(
         IF "completion" \in DOMAIN response_dict
         THEN response_dict["completion"] ELSE None,
         response_dict, status_code)]

\* ClientResponse(text=response["completion"] if status_code ==
\* SUCCESS_STATUS_CODE else None, raw_response=response, status_code=...)
ToClientResponse(status_code, response_dict) ==
    IF status_code = SUCCESS_STATUS_CODE
    THEN IF "completion" \in DOMAIN response_dict
         THEN [exc |-> NoExc,
               response |-> ClientResponse(response_dict["completion"],
                                           response_dict, status_code)]
         ELSE [exc |-> "KeyError", response |-> NoClientResponse]
    ELSE [exc |-> NoExc,
          response |-> ClientResponse(None, response_dict, status_code)]

\* _post_request returned to complete
complete_return ==
    LET r == ToClientResponse(result.status_code, result.response_dict) IN
    /\ pc = "returned"
    /\ completion.state = "posting"
    /\ completion' = [completion EXCEPT
                         !.state = IF r.exc = NoExc THEN "returned" ELSE "raised",
                         !.exc = r.exc,
                         !.response = r.response]
    /\ UNCHANGED <<pc, client, session, extra_headers, headers, posted,
                   received, response, result>>
    /\ UNCHANGED <<hvars, svars, appended, ctor_args>>

\* inputs of the client
KwargsInputs ==
    { EmptyDict, [max_tokens_to_sample |-> "64"], [bogus |-> "x"] }
ApiKeys == {None, "", "k1"}
EnvValues == {None, "", "envkey"}
BaseUrls == {"none", "https://x.test"}
HeaderFormats == Schemes \cup {"none"}
MaxRetriesValues == {2, DefaultMaxRetries}
ExtraNames == {"Authorization", "X-API-Key", "x-trace"}
ExtraValues(api_key) == {"custom", api_key}
ExtraHeaders(api_key) ==
    {PyNone} \cup
    { Dict(items) :
        items \in UNION { [N -> ExtraValues(api_key)] : N \in SUBSET ExtraNames } }

---------------------------------------------------------------------------
(* Specifications *)

Init ==
    /\ HistoryInit
    /\ appended = <<>>
    /\ ClientInit
    /\ SnapshotInit

\* the ChatHistory operations, in any order
Next ==
    \/ \E role \in AppendRoles, content \in Contents :
          append(role, content) /\ UNCHANGED <<appended, svars>>
    \/ \E content \in Contents :
          add_human_message(content) /\ UNCHANGED <<appended, svars>>
    \/ \E content \in Contents :
          add_assistant_message(content) /\ UNCHANGED <<appended, svars>>
    \/ clear /\ UNCHANGED <<appended, svars>>
    \/ \E msgs \in SetterInputs :
          messages_setter(msgs) /\ UNCHANGED <<appended, svars>>

Spec == Init /\ [][Next]_vars

\* appends to a history that is only ever appended to or cleared, with the
\* log of what was appended since it was last empty
Logged(appendCall) ==
    /\ Len(appended) < MaxAppends
    /\ appendCall
    /\ appended' = appended \o call'.arg
    /\ UNCHANGED svars

NextFifo ==
    \/ \E role \in AppendRoles, content \in Contents :
          Logged(append(role, content))
    \/ \E content \in Contents : Logged(add_human_message(content))
    \/ \E content \in Contents : Logged(add_assistant_message(content))
    \/ clear /\ appended' = <<>> /\ UNCHANGED svars
    \/ to_request_format /\ UNCHANGED <<appended, svars>>

SpecFifo == Init /\ [][NextFifo]_vars

\* direct calls of the static method check_message_format
CheckKeys == {"role", "content", "name"}
CheckValues == {"hi", human_role, None}

CheckInputs ==
    { Dict(items) : items \in UNION { [K -> CheckValues] : K \in SUBSET CheckKeys } }
    \cup { NonDict(t) : t \in {"str", "list", "NoneType", "int"} }

InitCheck ==
    /\ max_length \in 0..MaxLength
    /\ messages = <<>>
    /\ container = "deque"
    /\ appended = <<>>
    /\ ClientInit
    /\ SnapshotInit
    /\ \E m \in CheckInputs : call = CallRecord("pending", <<m>>, NoExc, None)

call_check_message_format ==
    LET r == check_message_format(call.arg[1]) IN
    /\ call.op = "pending"
    /\ call' = CallRecord("check_message_format", call.arg, r.exc,
                          IF r.exc = NoExc THEN r.ret ELSE None)
    /\ UNCHANGED <<max_length, messages, container, appended>>
    /\ UNCHANGED <<cvars, svars>>

NextCheck == call_check_message_format

SpecCheck == InitCheck /\ [][NextCheck]_vars

\* a history and a caller that reads its messages and works on the list it
\* got; every new dict gets an identity of its own
NewObject(appendCall) ==
    /\ next_id <= MaxObjects
    /\ appendCall
    /\ ids' = IF call'.exc = NoExc
              THEN ContainerAppend(container, ids, next_id, max_length)
              ELSE ids
    /\ next_id' = next_id + 1
    /\ UNCHANGED <<returned, appended>>

\* the setter stores the caller's objects themselves
CallerObjects(msgs) ==
    /\ next_id + Len(msgs) <= MaxObjects + 1
    /\ messages_setter(msgs)
    /\ ids' = IF call'.exc = NoExc
              THEN [i \in 1..Len(msgs) |-> next_id + i - 1]
              ELSE ids
    /\ next_id' = next_id + Len(msgs)
    /\ UNCHANGED <<returned, appended>>

NextSnapshot ==
    \/ \E role \in AppendRoles, content \in Contents :
          NewObject(append(role, content))
    \/ \E content \in Contents : NewObject(add_human_message(content))
    \/ \E content \in Contents : NewObject(add_assistant_message(content))
    \/ clear /\ ids' = <<>> /\ UNCHANGED <<next_id, returned, appended>>
    \/ \E msgs \in SetterInputs : CallerObjects(msgs)
    \/ messages_getter
    \/ caller_append
    \/ caller_remove
    \/ \E i \in 1..MaxList : caller_alter(i)

SpecSnapshot == Init /\ [][NextSnapshot]_vars

\* a client: construction, then _post_request calls one after the other
InitPost ==
    /\ Init
    /\ max_length = MaxLength

NextPost ==
    \/ \E api_key \in ApiKeys, max_retries \in MaxRetriesValues,
          env \in EnvValues, base_url \in BaseUrls,
          api_header_format \in HeaderFormats :
          Construct(api_key, max_retries, env, base_url, api_header_format)
    \/ \E extra \in ExtraHeaders(client.api_key) : session_enter(extra)
    \/ \E kwargs \in KwargsInputs : complete("Hello", kwargs)
    \/ complete_return
    \/ build_headers
    \/ session_exit
    \/ send_post("v1/complete")
    \/ \E status_code \in Statuses, body \in Bodies :
          server_responds(status_code, body)
    \/ network_failure
    \/ post_return

SpecPost == InitPost /\ [][NextPost]_vars

---------------------------------------------------------------------------
(* Claims about ChatHistory *)

HasKey(m, k) == m.type = "dict" /\ k \in DOMAIN m.items

\* C1: the number of buffered messages never exceeds max_length, also when
\* the buffer was replaced through the messages setter and then appended to.
C1_LengthBounded == Len(messages) <= max_length

LastN(s, n) ==
    IF Len(s) <= n THEN s ELSE SubSeq(s, Len(s) - n + 1, Len(s))

\* C2: a history that started empty holds the last max_length appended
\* messages in insertion order: all of them while at most max_length were
\* appended, and after that each append evicts exactly the oldest.
C2_Fifo ==
    /\ messages = LastN(appended, max_length)
    /\ Len(appended) <= max_length => Len(messages) = Len(appended)
    /\ Len(appended) >= max_length => Len(messages) = max_length

C2_Witness ==
    /\ max_length >= 2
    /\ Len(appended) > max_length
    /\ messages[1] # messages[2]
    /\ call.op = "add_human_message"

Invalid(m) == ~(HasKey(m, "role") /\ HasKey(m, "content"))

\* C3: the messages setter is atomic: if any element of the assigned
\* sequence is invalid it raises and the buffer is exactly what it was; if
\* every element is valid the buffer becomes the assigned sequence.
C3_SetterAtomic ==
    [][call'.op = "messages.setter" =>
          IF \E i \in 1..Len(call'.arg) : Invalid(call'.arg[i])
          THEN /\ call'.exc = ValueError
               /\ messages' = messages
               /\ container' = container
          ELSE /\ call'.exc = NoExc
               /\ messages' = call'.arg]_vars

C3_Witness ==
    /\ call.op = "messages.setter"
    /\ call.exc = ValueError
    /\ Len(call.arg) >= 2
    /\ ~Invalid(call.arg[1])
    /\ Invalid(call.arg[2])
    /\ Len(messages) >= 2
    /\ container = "deque"

\* C4: every buffered message has a role and a content that are present and
\* non-null.
C4_NoNullFields ==
    \A i \in 1..Len(messages) :
        /\ HasKey(messages[i], "role") /\ messages[i].items["role"] # None
        /\ HasKey(messages[i], "content") /\ messages[i].items["content"] # None

\* C5: every buffered element is a mapping with both a 'role' key and a
\* 'content' key.
C5_BufferValid ==
    \A i \in 1..Len(messages) :
        HasKey(messages[i], "role") /\ HasKey(messages[i], "content")

C5_Witness ==
    /\ container = "list"
    /\ Len(messages) >= 2
    /\ call.op = "messages.setter"
    /\ call.exc = ValueError

\* C6: check_message_format raises for a non-mapping, for a mapping without
\* 'role' and for a mapping without 'content' (so also for the empty one);
\* for a mapping with both keys it returns the same message and does not raise.
C6_CheckMessageFormat ==
    call.op = "check_message_format" =>
        LET m == call.arg[1] IN
        /\ m.type # "dict" => call.exc = ValueError
        /\ (m.type = "dict" /\ "role" \notin DOMAIN m.items)
              => call.exc = ValueError
        /\ (m.type = "dict" /\ "content" \notin DOMAIN m.items)
              => call.exc = ValueError
        /\ (m.type = "dict" /\ {"role", "content"} \subseteq DOMAIN m.items)
              => call.exc = NoExc /\ call.ret = m

C6_Witness ==
    /\ call.op = "check_message_format"
    /\ call.exc = NoExc
    /\ DOMAIN call.arg[1].items = CheckKeys
    /\ call.arg[1].items["role"] = None

---------------------------------------------------------------------------
(* Claims about BaseClient._post_request *)

Sent == pc \in {"sent", "received", "returned", "raised"}

\* C7: a post call retries while the status is retryable: when the server
\* answers every attempt with 429 and max_retries = 5, the call has sent
\* exactly 5 POSTs when it returns, and it returns the last (status, body)
\* received instead of raising.
C7_RetriesWhileRetryable ==
    (/\ pc = "returned"
     /\ client.max_retries = DefaultMaxRetries
     /\ \A i \in 1..Len(received) : received[i] = 429)
        => /\ Len(posted) = DefaultMaxRetries
           /\ result.exc = NoExc
           /\ response.status_code = 429

\* C8: every key of extra_headers has, in the headers sent, exactly the
\* caller-supplied value, whatever the auth scheme.
C8_ExtraHeadersWin ==
    (Sent /\ extra_headers.type = "dict") =>
        \A i \in 1..Len(posted) :
            \A k \in DOMAIN extra_headers.items :
                /\ k \in DOMAIN posted[i].headers
                /\ posted[i].headers[k] = extra_headers.items[k]

\* C8 (amended): every key of extra_headers has, in the headers sent, exactly
\* the caller-supplied value, except that Authorization is sent as
\* 'Bearer <key>' when neither the caller's Authorization value nor the value
\* of any other header sent is the raw API key.
C8_ExtraHeadersWinButBearer ==
    (Sent /\ extra_headers.type = "dict") =>
        \A i \in 1..Len(posted) :
            LET sent == posted[i].headers
                extra == extra_headers.items
                keyAbsent ==
                    /\ "Authorization" \in DOMAIN extra
                    /\ extra["Authorization"] # client.api_key
                    /\ \A h \in DOMAIN sent \ {"Authorization"} :
                          sent[h] # client.api_key
            IN  \A k \in DOMAIN extra :
                    /\ k \in DOMAIN sent
                    /\ sent[k] = IF k = "Authorization" /\ keyAbsent
                                 THEN "Bearer " \o client.api_key
                                 ELSE extra[k]

C8_Witness ==
    /\ Sent
    /\ extra_headers.type = "dict"
    /\ DOMAIN extra_headers.items = {"Authorization", "x-trace"}
    /\ client.scheme = "bearer authentication"
    /\ posted[1].headers["Authorization"] # extra_headers.items["Authorization"]
    /\ posted[1].headers["x-trace"] = extra_headers.items["x-trace"]

\* C9: without extra headers a post sends accept and content-type
\* application/json and, under the registry's header name for the scheme,
\* the registry's value for the key (X-API-Key: k, Authorization: Basic k,
\* Authorization: Bearer k), and no other header.
C9_AuthHeaderSent ==
    (Sent /\ extra_headers.type # "dict") =>
        \A i \in 1..Len(posted) :
            posted[i].headers =
                [h \in {"accept", "content-type", HeaderKey(client.scheme)} |->
                    IF h = HeaderKey(client.scheme)
                    THEN (CASE client.scheme = "x-api-key" -> client.api_key
                            [] client.scheme = "basic authentication"
                                 -> "Basic " \o client.api_key
                            [] client.scheme = "bearer authentication"
                                 -> "Bearer " \o client.api_key)
                    ELSE "application/json"]

\* C10: a post call returns the raw status and the decoded body when the
\* body decodes; when it does not, it returns the empty map with status 500,
\* except that a raw status of 200 stays 200.
C10_Normalization ==
    pc = "returned" =>
        /\ result.exc = NoExc
        /\ response.decodes =>
              /\ result.status_code = response.status_code
              /\ result.response_dict = response.json
        /\ ~response.decodes =>
              /\ result.response_dict = EmptyDict
              /\ response.status_code # 200 => result.status_code = 500
              /\ response.status_code = 200 => result.status_code = 200

C10_Witness ==
    /\ pc = "returned"
    /\ ~response.decodes
    /\ response.status_code = 503
    /\ result.status_code = 500
    /\ result.response_dict = EmptyDict

---------------------------------------------------------------------------
(* Claims about AnthropicClient.complete *)

\* a complete call that got as far as calling _post_request has ended
CompleteEnded ==
    /\ completion.state \in {"returned", "raised"}
    /\ completion.exc # "ValidationError"

\* C11: for every response whose normalized status is not 200, decoded or
\* not, complete returns a ClientResponse with text null, that status and
\* the normalized body; text is non-null only with status 200.
C11_ErrorStatusIsData ==
    /\ (CompleteEnded /\ pc = "returned" /\ result.status_code # 200) =>
          /\ completion.state = "returned"
          /\ completion.response.text = None
          /\ completion.response.status_code = result.status_code
          /\ completion.response.raw_response = result.response_dict
    /\ (completion.state = "returned" /\ completion.response.text # None) =>
          completion.response.status_code = 200

C11_Witness ==
    /\ completion.state = "returned"
    /\ response.status_code = 404
    /\ response.decodes
    /\ "completion" \in DOMAIN response.json
    /\ completion.response.status_code = 404
    /\ completion.response.text = None

\* C12: a 200 response whose body does not decode is passed through: the
\* transport yields (200, {}) and complete returns a ClientResponse with
\* status_code 200 and an empty raw_response instead of raising.
C12_UndecodableSuccess ==
    (CompleteEnded /\ pc = "returned"
        /\ response.status_code = 200 /\ ~response.decodes) =>
        /\ result.status_code = 200
        /\ result.response_dict = EmptyDict
        /\ completion.state = "returned"
        /\ completion.response.status_code = 200
        /\ completion.response.raw_response = EmptyDict

\* C13: a failure of the exchange below HTTP is an exception, never data:
\* complete raises it and returns no ClientResponse, no status code stands
\* for it, and a ClientResponse comes only from a response that was received.
C13_NetworkFailureRaises ==
    /\ (pc = "raised" /\ completion.state # "none"
          /\ completion.exc # "ValidationError") =>
          /\ completion.state = "raised"
          /\ completion.exc = "ConnectionError"
          /\ completion.response = NoClientResponse
    /\ result.exc = "ConnectionError" => result.status_code = 0
    /\ completion.state = "returned" =>
          /\ pc = "returned"
          /\ Len(received) >= 1
          /\ received[Len(received)] = response.status_code

C13_Witness ==
    /\ pc = "raised"
    /\ completion.state = "raised"
    /\ completion.exc = "ConnectionError"
    /\ Len(posted) = 1

\* C20: when the schema rejects the options of a complete call, complete
\* raises the validation error, builds no ClientResponse, and the step that
\* raises sends no POST and opens no session.
C20_ValidationBeforePost ==
    /\ [](completion.state # "none" /\ ~SchemaAccepts(completion.kwargs) =>
             /\ completion.state = "raised"
             /\ completion.exc = "ValidationError"
             /\ completion.response = NoClientResponse)
    /\ [][(completion'.state # "none" /\ ~SchemaAccepts(completion'.kwargs)) =>
             /\ posted' = posted
             /\ received' = received
             /\ session' = session
             /\ pc' = pc]_vars

C20_Witness ==
    /\ completion.state = "raised"
    /\ completion.exc = "ValidationError"
    /\ pc = "idle"
    /\ posted = <<>>

---------------------------------------------------------------------------
(* Claims about BaseClient.__init__ *)

Constructed == pc \notin {"new", "ctor_raised"}

ConfigOk ==
    /\ ctor_args.base_url # "none"
    /\ ctor_args.api_header_format \in Schemes

\* C14: construction raises exactly when no key is resolvable (the explicit
\* key is null and the environment variable is unset), or the base URL is
\* unset, or the scheme is not in the registry; with a non-null explicit key,
\* a base URL and a recognised scheme it succeeds and uses the explicit key.
C14_ConstructionErrors ==
    pc # "new" =>
        /\ pc = "ctor_raised" <=>
              \/ ctor_args.api_key = None /\ ctor_args.env = None
              \/ ~ConfigOk
        /\ (ctor_args.api_key # None /\ ConfigOk) =>
              Constructed /\ client.api_key = ctor_args.api_key

\* C14 (amended): an empty explicit key counts as no explicit key.
\* Construction raises exactly when the explicit key is null or empty and
\* the environment variable is unset, or the base URL is unset, or the
\* scheme is not in the registry; with a non-empty explicit key, a base URL
\* and a recognised scheme it succeeds and uses the explicit key, and
\* otherwise, when it succeeds, it uses the value of the variable.
C14_ConstructionErrorsEmptyKey ==
    pc # "new" =>
        /\ pc = "ctor_raised" <=>
              \/ ctor_args.api_key \in {None, ""} /\ ctor_args.env = None
              \/ ~ConfigOk
        /\ pc = "ctor_raised" => result.exc = ValueError /\ client = NoClient
        /\ (ctor_args.api_key \notin {None, ""} /\ ConfigOk) =>
              Constructed /\ client.api_key = ctor_args.api_key
        /\ (ctor_args.api_key \in {None, ""} /\ Constructed) =>
              client.api_key = ctor_args.env

C14_Witness ==
    /\ pc = "ctor_raised"
    /\ ctor_args.api_key = ""
    /\ ctor_args.env = None
    /\ ConfigOk

---------------------------------------------------------------------------
(* Claims about the requests of BaseClient._post_request *)

\* C17: when the status of the response is not retryable (200, 404), the
\* post call has sent exactly one POST and returns the normalized status and
\* body of that one response.
C17_NoRetryOnFinalStatus ==
    (pc = "returned" /\ received[1] \notin RETRY_STATUS_CODES) =>
        /\ Len(posted) = 1
        /\ received = <<response.status_code>>
        /\ result.exc = NoExc
        /\ result.status_code =
              IF response.decodes \/ response.status_code = SUCCESS_STATUS_CODE
              THEN response.status_code ELSE 500
        /\ result.response_dict =
              IF response.decodes THEN response.json ELSE EmptyDict

C17_Witness ==
    /\ pc = "returned"
    /\ received = <<404>>
    /\ Len(posted) = 1
    /\ result.status_code = 404
    /\ result.response_dict = [error |-> "overloaded"]

\* C18: every POST of a post call goes out through the call's session while
\* the session is open, under the retry policy mounted on it, and the
\* session is closed when the call has ended; no POST goes out after the
\* session is closed or outside it.
C18_SessionScoped ==
    /\ Sent =>
          \A i \in 1..Len(posted) :
              /\ posted[i].session = "open"
              /\ posted[i].via = "session.post"
              /\ posted[i].retries = session.retries
    /\ pc \in {"returned", "raised"} => session.state = "closed"

\* C19: every POST carries the credential: some header sent has the key as
\* its value, or Authorization is sent as 'Bearer ' followed by the key,
\* whatever the scheme and the extra headers.
C19_CredentialSent ==
    Sent =>
        \A i \in 1..Len(posted) :
            \/ client.api_key \in Values(posted[i].headers)
            \/ /\ "Authorization" \in DOMAIN posted[i].headers
               /\ posted[i].headers["Authorization"] = "Bearer " \o client.api_key

C19_Witness ==
    /\ Sent
    /\ client.scheme = "x-api-key"
    /\ client.api_key = "k1"
    /\ extra_headers.type = "dict"
    /\ "X-API-Key" \in DOMAIN extra_headers.items
    /\ extra_headers.items["X-API-Key"] = "custom"
    /\ posted[1].headers["X-API-Key"] = "custom"
    /\ posted[1].headers["Authorization"] = "Bearer k1"

---------------------------------------------------------------------------
(* Claims about AnthropicChatHistory.to_request_format *)

\* the serialization one turn at a time: label, ': ', content, and a blank
\* line before every turn but the first
RECURSIVE Turns(_)
Turns(msgs) ==
    IF msgs = <<>> THEN ""
    ELSE LET m == msgs[Len(msgs)].items
             label == IF m["role"] = human_role THEN "Human"
                      ELSE IF m["role"] = assistant_role THEN "Assistant"
                      ELSE m["role"]
         IN  Turns(SubSeq(msgs, 1, Len(msgs) - 1))
                \o (IF Len(msgs) > 1 THEN "\n\n" ELSE "")
                \o label \o ": " \o Str(m["content"])

\* C15: to_request_format returns the serialization of exactly the last
\* max_length appended messages, oldest first, each as its capitalized role,
\* ': ' and its content, separated by blank lines and ending with the
\* assistant cue, and the buffer is as it was.
C15_SerializesBuffer ==
    call.op = "to_request_format" =>
        /\ call.exc = NoExc
        /\ call.ret = Turns(LastN(appended, max_length)) \o "\n\nAssistant:"
        /\ messages = LastN(appended, max_length)

---------------------------------------------------------------------------
(* Claims about the messages getter *)

HistoryOps ==
    {"append", "add_human_message", "add_assistant_message", "clear",
     "messages.setter"}

CallerOps == {"list.append", "list.pop", "dict.__setitem__"}

\* what the caller sees in the list it holds
Seen(r) == [i \in 1..Len(r.list) |-> r.list[i].msg]

\* C16: the getter returns the buffer in insertion order; no later append,
\* clear or setter call changes a list returned before, and nothing the
\* caller does to the list or to its messages changes the buffer.
C16_SnapshotIsolated ==
    [][/\ call'.op = "messages" => Seen(returned') = messages
       /\ (returned.taken /\ call'.op \in HistoryOps) =>
              Seen(returned') = Seen(returned)
       /\ call'.op \in CallerOps => messages' = messages]_vars

===========================================================================
